---- MODULE Spec2Model ----
(***************************************************************************)
(* Model of the plexmuse web client (src/static/app.js): the provider      *)
(* catalog, the library statistics with their refresh, the playlist length *)
(* selector and the playlist request handler, as one state machine whose   *)
(* steps are the browser's event-handler runs.  JavaScript is single      *)
(* threaded: a handler runs from its start (or from the resumption of an   *)
(* await) to its next await without interleaving, so one action is one     *)
(* such run.  `await fetch(..)` followed by `await response.json()` or     *)
(* `await response.text()` changes no state in between and is one action.  *)
(***************************************************************************)
EXTENDS Integers, Sequences, FiniteSets, TLC

VARIABLES
    providers,          \* let providers                       (app.js:27)
    llmOptions,         \* <option> children of #llmProvider   (app.js:13)
    llmSelected,        \* index of the selected option, 0 if none
    providersPending,   \* the GET /providers of fetchProviders is in flight
    statsPending,       \* the GET /stats of fetchLibraryStats is in flight
    libraryStatsHidden, \* #libraryStats carries class "hidden"
    statSkeleton,       \* stat fields carry the skeleton classes
    statArtists,        \* textContent of #statArtists
    statAlbums,         \* textContent of #statAlbums
    statTracks,         \* textContent of #statTracks
    refreshDisabled,    \* refreshBtn.disabled
    refreshSpin,        \* #refreshIcon carries class "animate-spin"
    refreshPending,     \* number of POST /refresh calls in flight
    selectedLength,     \* let selectedLength                  (app.js:119)
    activeButtons,      \* length buttons carrying the active styles
    ui,                 \* the submit button, skeleton, results and error elements
    recPending          \* POST /recommendations calls in flight, oldest first

vars == << providers, llmOptions, llmSelected, providersPending,
           statsPending, libraryStatsHidden, statSkeleton,
           statArtists, statAlbums, statTracks,
           refreshDisabled, refreshSpin, refreshPending,
           selectedLength, activeButtons, ui, recPending >>

providerVars == << providers, llmOptions, llmSelected, providersPending >>
statsVars == << statsPending, libraryStatsHidden, statSkeleton,
                statArtists, statAlbums, statTracks >>
refreshVars == << refreshDisabled, refreshSpin, refreshPending >>
lengthVars == << selectedLength, activeButtons >>
submitVars == << ui, recPending >>

(***************************************************************************)
(* Bounds of the model.                                                    *)
(***************************************************************************)
MaxTracks == 2          \* longest track list a /recommendations body carries
MaxInFlight == 2        \* cap on recommendation requests in flight
MaxRefreshInFlight == 2 \* cap on refresh requests in flight

(***************************************************************************)
(* JSON values, tagged by kind, and the JavaScript conversions used.       *)
(***************************************************************************)
Invalid == [k |-> "invalid"]    \* a body response.json() rejects
Undef == [k |-> "undefined"]    \* a property that is absent
Null == [k |-> "null"]
Str(s) == [k |-> "string", v |-> s]
Num(n) == [k |-> "number", v |-> n]
Arr(a) == [k |-> "array", v |-> a]
Obj(o) == [k |-> "object", v |-> o]

\* JavaScript truthiness, as tested by `!x`, `x || y` and `x && y`.
Truthy(x) ==
    CASE x.k = "undefined" -> FALSE
      [] x.k = "null" -> FALSE
      [] x.k = "invalid" -> FALSE
      [] x.k = "string" -> x.v # ""
      [] x.k = "number" -> x.v # 0
      [] OTHER -> TRUE

\* String conversion inside a template literal `${x}`.
JsToString(x) ==
    CASE x.k = "undefined" -> "undefined"
      [] x.k = "null" -> "null"
      [] x.k = "string" -> x.v
      [] x.k = "number" -> ToString(x.v)
      [] OTHER -> "[object Object]"

\* The three digits of a thousands group.
Pad3(n) ==
    IF n < 10 THEN "00" \o ToString(n)
    ELSE IF n < 100 THEN "0" \o ToString(n)
    ELSE ToString(n)

\* Number.prototype.toLocaleString() of a non-negative integer below one
\* million (en-US grouping).
toLocaleString(n) ==
    IF n < 1000 THEN ToString(n)
    ELSE ToString(n \div 1000) \o "," \o Pad3(n % 1000)

\* Messages of the errors the JavaScript engine and fetch raise.
SyntaxErrorMsg == "Unexpected token in JSON"
TypeErrorMsg == "Cannot read properties of undefined"
NetworkErrorMsg == "Failed to fetch"

(***************************************************************************)
(* The provider catalog.                                                   *)
(***************************************************************************)
Provider(i) ==
    [ name |-> "Provider" \o ToString(i),
      description |-> "Model" \o ToString(i),
      model |-> "vendor/model-" \o ToString(i) ]

\* The provider lists a /providers body carries: none configured, or two.
ProviderLists == { << >>, << Provider(1), Provider(2) >> }

\* What the GET /providers call can come back with.
ProviderResponses ==
    { [net |-> FALSE, ok |-> FALSE, json |-> Invalid],
      [net |-> TRUE, ok |-> FALSE, json |-> Invalid],
      [net |-> TRUE, ok |-> TRUE, json |-> Invalid] }
    \cup { [net |-> TRUE, ok |-> TRUE, json |-> Arr(l)] : l \in ProviderLists }

NoProvidersOption ==
    [value |-> "", text |-> "No providers configured", disabled |-> TRUE]
ErrorProvidersOption ==
    [value |-> "", text |-> "Error loading providers", disabled |-> TRUE]

ProviderOption(p) ==
    [ value |-> p.model,
      text |-> p.name \o " - " \o p.description,
      disabled |-> FALSE ]

\* llmProviderSelect.value
llmValue ==
    IF llmSelected = 0 THEN "" ELSE llmOptions[llmSelected].value

\* Faulty variant of FetchProvidersDone: an empty list is reported with the
\* message of a failed load.
FetchProvidersDone_sameMessage(r) ==
    /\ providersPending
    /\ providersPending' = FALSE
    /\ IF r.net /\ r.ok /\ r.json.k = "array"
       THEN /\ providers' = r.json.v
            /\ IF Len(r.json.v) = 0
               THEN /\ llmOptions' = << ErrorProvidersOption >>
                    /\ llmSelected' = 1
               ELSE /\ llmOptions' =
                          [i \in 1..Len(r.json.v) |-> ProviderOption(r.json.v[i])]
                    /\ llmSelected' = 1
       ELSE /\ providers' = providers
            /\ llmOptions' = << ErrorProvidersOption >>
            /\ llmSelected' = 1
    /\ UNCHANGED << statsVars, refreshVars, lengthVars, submitVars >>

\* fetchProviders, from the resumption of its awaits to its end.
FetchProvidersDone(r) ==
    /\ providersPending
    /\ providersPending' = FALSE
    /\ IF r.net /\ r.ok /\ r.json.k = "array"
       THEN /\ providers' = r.json.v
            /\ IF Len(r.json.v) = 0
               THEN /\ llmOptions' = << NoProvidersOption >>
                    /\ llmSelected' = 1
               ELSE /\ llmOptions' =
                          [i \in 1..Len(r.json.v) |-> ProviderOption(r.json.v[i])]
                    /\ llmSelected' = 1
       ELSE /\ providers' = providers
            /\ llmOptions' = << ErrorProvidersOption >>
            /\ llmSelected' = 1
    /\ UNCHANGED << statsVars, refreshVars, lengthVars, submitVars >>

\* The user picks another enabled option of the provider dropdown.
SelectProvider(i) ==
    /\ i \in DOMAIN llmOptions
    /\ ~llmOptions[i].disabled
    /\ i # llmSelected
    /\ llmSelected' = i
    /\ UNCHANGED << providers, llmOptions, providersPending,
                    statsVars, refreshVars, lengthVars, submitVars >>

(***************************************************************************)
(* The library statistics and their refresh.                               *)
(***************************************************************************)
StatsObject(a, b, c) == [artists |-> a, albums |-> b, tracks |-> c]

\* The counts a GET /stats body carries: complete, or lacking a count.
LoadStats ==
    { StatsObject(Num(12), Num(34), Num(1234)),
      StatsObject(Num(12), Undef, Num(1234)) }

\* The counts a POST /refresh body carries under `stats`.
RefreshStats ==
    { StatsObject(Num(13), Num(35), Num(2345)),
      StatsObject(Num(13), Undef, Num(2345)) }

StatsResponses ==
    { [net |-> FALSE, ok |-> FALSE, json |-> Invalid],
      [net |-> TRUE, ok |-> FALSE, json |-> Invalid],
      [net |-> TRUE, ok |-> TRUE, json |-> Invalid] }
    \cup { [net |-> TRUE, ok |-> TRUE, json |-> Obj(s)] : s \in LoadStats }

RefreshResponses ==
    { [net |-> FALSE, ok |-> FALSE, json |-> Invalid],
      [net |-> TRUE, ok |-> FALSE, json |-> Invalid],
      [net |-> TRUE, ok |-> TRUE, json |-> Invalid],
      [net |-> TRUE, ok |-> TRUE, json |-> Obj([stats |-> Undef])] }
    \cup { [net |-> TRUE, ok |-> TRUE, json |-> Obj([stats |-> Obj(s)])] :
              s \in RefreshStats }

\* The three assignments `statX.textContent = s.x.toLocaleString()` in
\* order, starting from the texts cur: a count that is absent makes its
\* statement throw, the earlier assignments stay, the later ones are not run.
assignStats(s, cur) ==
    IF s.artists.k # "number" THEN [cur EXCEPT !.threw = TRUE]
    ELSE IF s.albums.k # "number"
    THEN [cur EXCEPT !.artists = toLocaleString(s.artists.v), !.threw = TRUE]
    ELSE IF s.tracks.k # "number"
    THEN [cur EXCEPT !.artists = toLocaleString(s.artists.v),
                     !.albums = toLocaleString(s.albums.v), !.threw = TRUE]
    ELSE [ artists |-> toLocaleString(s.artists.v),
           albums |-> toLocaleString(s.albums.v),
           tracks |-> toLocaleString(s.tracks.v),
           threw |-> FALSE ]

statTexts ==
    [artists |-> statArtists, albums |-> statAlbums, tracks |-> statTracks,
     threw |-> FALSE]

\* Faulty variant of FetchLibraryStatsDone: the statistics are hidden only
\* when no body was decoded, not when an assignment throws.
FetchLibraryStatsDone_noHideOnThrow(r) ==
    /\ statsPending
    /\ statsPending' = FALSE
    /\ IF r.net /\ r.ok /\ r.json.k = "object"
       THEN LET t == assignStats(r.json.v, statTexts)
            IN  /\ statSkeleton' = FALSE
                /\ statArtists' = t.artists
                /\ statAlbums' = t.albums
                /\ statTracks' = t.tracks
                /\ libraryStatsHidden' = libraryStatsHidden
       ELSE /\ libraryStatsHidden' = TRUE
            /\ UNCHANGED << statSkeleton, statArtists, statAlbums, statTracks >>
    /\ UNCHANGED << providerVars, refreshVars, lengthVars, submitVars >>

\* Faulty variant of FetchLibraryStatsDone: a failed load is also reported
\* in the error banner.
FetchLibraryStatsDone_showsError(r) ==
    /\ statsPending
    /\ statsPending' = FALSE
    /\ IF r.net /\ r.ok /\ r.json.k = "object"
       THEN LET t == assignStats(r.json.v, statTexts)
            IN  /\ statSkeleton' = FALSE
                /\ statArtists' = t.artists
                /\ statAlbums' = t.albums
                /\ statTracks' = t.tracks
                /\ libraryStatsHidden' = (libraryStatsHidden \/ t.threw)
                /\ ui' = IF t.threw THEN [ui EXCEPT !.errorHidden = FALSE] ELSE ui
       ELSE /\ libraryStatsHidden' = TRUE
            /\ ui' = [ui EXCEPT !.errorHidden = FALSE]
            /\ UNCHANGED << statSkeleton, statArtists, statAlbums, statTracks >>
    /\ UNCHANGED << providerVars, refreshVars, lengthVars, recPending >>

\* fetchLibraryStats, from the resumption of its awaits to its end.
FetchLibraryStatsDone(r) ==
    /\ statsPending
    /\ statsPending' = FALSE
    /\ IF r.net /\ r.ok /\ r.json.k = "object"
       THEN LET t == assignStats(r.json.v, statTexts)
            IN  /\ statSkeleton' = FALSE
                /\ statArtists' = t.artists
                /\ statAlbums' = t.albums
                /\ statTracks' = t.tracks
                /\ libraryStatsHidden' = (libraryStatsHidden \/ t.threw)
       ELSE /\ libraryStatsHidden' = TRUE
            /\ UNCHANGED << statSkeleton, statArtists, statAlbums, statTracks >>
    /\ UNCHANGED << providerVars, refreshVars, lengthVars, submitVars >>

\* Faulty variant of RefreshClick: the button is left enabled.
RefreshClick_noDisable ==
    /\ ~refreshDisabled
    /\ refreshPending < MaxRefreshInFlight
    /\ refreshDisabled' = refreshDisabled
    /\ refreshSpin' = TRUE
    /\ refreshPending' = refreshPending + 1
    /\ UNCHANGED << providerVars, statsVars, lengthVars, submitVars >>

\* The click on the refresh button: refreshLibraryCache up to its await.
\* A disabled button dispatches no click.
RefreshClick ==
    /\ ~refreshDisabled
    /\ refreshPending < MaxRefreshInFlight
    /\ refreshDisabled' = TRUE
    /\ refreshSpin' = TRUE
    /\ refreshPending' = refreshPending + 1
    /\ UNCHANGED << providerVars, statsVars, lengthVars, submitVars >>

\* Faulty variant of RefreshLibraryCacheDone: the button and the icon are
\* restored at the end of the try block instead of in a finally block.
RefreshLibraryCacheDone_noFinally(r) ==
    /\ refreshPending > 0
    /\ refreshPending' = refreshPending - 1
    /\ IF r.net /\ r.ok /\ r.json.k = "object" /\ r.json.v.stats.k = "object"
       THEN LET t == assignStats(r.json.v.stats.v, statTexts)
            IN  /\ statArtists' = t.artists
                /\ statAlbums' = t.albums
                /\ statTracks' = t.tracks
                /\ refreshDisabled' = (refreshDisabled /\ t.threw)
                /\ refreshSpin' = (refreshSpin /\ t.threw)
       ELSE UNCHANGED << statArtists, statAlbums, statTracks,
                         refreshDisabled, refreshSpin >>
    /\ UNCHANGED << providerVars, statsPending, libraryStatsHidden, statSkeleton,
                    lengthVars, submitVars >>

\* refreshLibraryCache, from the resumption of its awaits to its end.
RefreshLibraryCacheDone(r) ==
    /\ refreshPending > 0
    /\ refreshPending' = refreshPending - 1
    /\ IF r.net /\ r.ok /\ r.json.k = "object" /\ r.json.v.stats.k = "object"
       THEN LET t == assignStats(r.json.v.stats.v, statTexts)
            IN  /\ statArtists' = t.artists
                /\ statAlbums' = t.albums
                /\ statTracks' = t.tracks
       ELSE UNCHANGED << statArtists, statAlbums, statTracks >>
    /\ refreshDisabled' = FALSE
    /\ refreshSpin' = FALSE
    /\ UNCHANGED << providerVars, statsPending, libraryStatsHidden, statSkeleton,
                    lengthVars, submitVars >>

(***************************************************************************)
(* The playlist length selector.                                           *)
(***************************************************************************)
LengthButtons == {"short", "medium", "long"}

lengthConfigs ==
    [ short |-> [min |-> 20, max |-> 40],
      medium |-> [min |-> 50, max |-> 70],
      long |-> [min |-> 100, max |-> 140] ]

\* The buttons setActiveLength(length) leaves with the active styles.
activeAfter(length) == { b \in LengthButtons : b = length }

\* The click on a length button.
SetActiveLength(length) ==
    /\ selectedLength' = length
    /\ activeButtons' = activeAfter(length)
    /\ UNCHANGED << providerVars, statsVars, refreshVars, submitVars >>

(***************************************************************************)
(* The error banner and the loading state.                                 *)
(***************************************************************************)
\* showError(message): both error elements exist in the page.
showError(u, message) ==
    [u EXCEPT !.errorText = message, !.errorHidden = FALSE]

\* Faulty variant of hideError: the message is cleared with the banner.
hideError_clearText(u) == [u EXCEPT !.errorHidden = TRUE, !.errorText = ""]

\* hideError()
hideError(u) == [u EXCEPT !.errorHidden = TRUE]

\* Faulty variant of setLoading: entering the loading state leaves the
\* results panel as it is.
setLoading_keepResults(u, isLoading) ==
    IF isLoading
    THEN [u EXCEPT !.submitDisabled = TRUE,
                   !.spinnerHidden = FALSE,
                   !.btnText = "Generating...",
                   !.skeletonHidden = FALSE]
    ELSE [u EXCEPT !.submitDisabled = FALSE,
                   !.spinnerHidden = TRUE,
                   !.btnText = "Generate Playlist",
                   !.skeletonHidden = TRUE,
                   !.released = @ + 1]

\* Faulty variant of setLoading: the submit button is never disabled.
setLoading_noDisable(u, isLoading) ==
    IF isLoading
    THEN [u EXCEPT !.submitDisabled = FALSE,
                   !.spinnerHidden = FALSE,
                   !.btnText = "Generating...",
                   !.skeletonHidden = FALSE,
                   !.resultsHidden = TRUE]
    ELSE [u EXCEPT !.submitDisabled = FALSE,
                   !.spinnerHidden = TRUE,
                   !.btnText = "Generate Playlist",
                   !.skeletonHidden = TRUE,
                   !.released = @ + 1]

\* setLoading(isLoading).  u.released counts the setLoading(false) calls
\* since the latest submit event (a history field, read by no handler).
setLoading(u, isLoading) ==
    IF isLoading
    THEN [u EXCEPT !.submitDisabled = TRUE,
                   !.spinnerHidden = FALSE,
                   !.btnText = "Generating...",
                   !.skeletonHidden = FALSE,
                   !.resultsHidden = TRUE]
    ELSE [u EXCEPT !.submitDisabled = FALSE,
                   !.spinnerHidden = TRUE,
                   !.btnText = "Generate Playlist",
                   !.skeletonHidden = TRUE,
                   !.released = @ + 1]

\* The click on the dismiss button of the error banner.
DismissError ==
    /\ ui' = hideError(ui)
    /\ UNCHANGED << providerVars, statsVars, refreshVars, lengthVars, recPending >>

(***************************************************************************)
(* The playlist request.                                                   *)
(***************************************************************************)
ValidationMsg == "Please select an AI provider"
ShapeErrorMsg == "Invalid response format: missing tracks data"
FallbackMsg == "Failed to generate playlist. Please try again."

\* `HTTP error! status: ${response.status}`
httpErrorMsg(status) == "HTTP error! status: " \o ToString(status)

\* contentType && contentType.includes("application/json"); a response
\* without the header has contentType null, written "" here.
declaresJson(contentType) ==
    contentType \in {"application/json", "application/json; charset=utf-8"}

\* The deep link template of the plexLink assignment.
plexLinkHref(machine_identifier, id) ==
    "https://app.plex.tv/desktop/#!/server/" \o machine_identifier
        \o "/playlist?key=/playlists/" \o id
        \o "&context=source:content.playlists"

\* A title that reads as markup: the start tag of an unknown element.
MarkupTitle == "<untitled>"

\* The text the HTML parser gives an element whose content is written as
\* the string s through innerHTML, for the strings of this model:
\* MarkupTitle is read as a start tag and leaves the element without text;
\* the other strings hold neither "<" nor "&" and are their own text.
htmlText(s) == IF s = MarkupTitle THEN "" ELSE s

\* The <li> entries tracksList holds once the tracks.map(..).join('')
\* markup is assigned to innerHTML and parsed: the texts of the position,
\* title and artist elements of each track, in the order of the array.
renderTracks(tracks) ==
    [i \in 1..Len(tracks) |->
        [ position |-> htmlText(ToString((i - 1) + 1)),
          title |-> htmlText(JsToString(tracks[i].v.title)),
          artist |-> htmlText(JsToString(tracks[i].v.artist)) ]]

\* The prompts the user types.
Prompts == {"rainy day"}

\* The tracks a body carries.
Track(i) ==
    Obj([title |-> Str("Title" \o ToString(i)), artist |-> Str("Artist" \o ToString(i))])

\* A track whose title reads as markup.
MarkupTrack == Obj([title |-> Str(MarkupTitle), artist |-> Str("Artist0")])

Reverse(q) == [i \in 1..Len(q) |-> q[Len(q) + 1 - i]]

\* The tracks of a body in catalog order.
TrackList == [i \in 1..MaxTracks |-> Track(i)]

PlaylistBody(name, count, tracks, id, mid) ==
    [ name |-> Str(name), track_count |-> Num(count), tracks |-> tracks,
      id |-> id, machine_identifier |-> mid ]

\* The identifiers a body carries: both, or one of them only.
Identifiers ==
    { << Str("42"), Str("srv1") >>, << Undef, Str("srv1") >>, << Str("42"), Undef >> }

\* The decoded bodies of a success response of POST /recommendations:
\* well-formed ones, and ones whose tracks is absent or no array.
PlaylistBodies ==
    { PlaylistBody("Mix", MaxTracks, Arr(TrackList), x[1], x[2]) : x \in Identifiers }
    \cup { PlaylistBody("Chill", MaxTracks + 3, t, Str("42"), Str("srv1")) :
              t \in { Undef, Str("none"),
                      Arr(Reverse([TrackList EXCEPT ![1] = MarkupTrack])) } }

\* The bodies of a non-success response that declares JSON: the raw text
\* and what response.json() makes of it.
JsonErrorBodies ==
    { [text |-> "", json |-> Invalid],
      [text |-> "{\"detail\":\"\"}", json |-> Obj([detail |-> Str("")])],
      [text |-> "{\"detail\":\"model unavailable\"}",
       json |-> Obj([detail |-> Str("model unavailable")])] }

\* The bodies of a non-success response that does not declare JSON.
TextErrorBodies ==
    { [text |-> "", json |-> Invalid],
      [text |-> "server exploded", json |-> Invalid] }

\* What the POST /recommendations call can come back with: a network
\* failure, a non-success status, or a success status.
RecResponses ==
    { [net |-> FALSE, ok |-> FALSE, status |-> 0, contentType |-> "",
       text |-> "", json |-> Invalid] }
    \cup { [net |-> TRUE, ok |-> FALSE, status |-> 500,
            contentType |-> "application/json",
            text |-> b.text, json |-> b.json] : b \in JsonErrorBodies }
    \cup { [net |-> TRUE, ok |-> FALSE, status |-> 500,
            contentType |-> "text/plain",
            text |-> b.text, json |-> b.json] : b \in TextErrorBodies }
    \cup { [net |-> TRUE, ok |-> FALSE, status |-> 500, contentType |-> "",
            text |-> "", json |-> Invalid] }
    \cup { [net |-> TRUE, ok |-> TRUE, status |-> 200,
            contentType |-> "application/json", text |-> "", json |-> j] :
              j \in {Invalid, Null} \cup { Obj(d) : d \in PlaylistBodies } }

\* The message of the error the `if (!response.ok)` block throws.
nonOkMessage(r) ==
    IF declaresJson(r.contentType)
    THEN IF r.json.k = "invalid" THEN SyntaxErrorMsg
         ELSE IF r.json.k # "object" THEN TypeErrorMsg
         ELSE IF Truthy(r.json.v.detail) THEN JsToString(r.json.v.detail)
         ELSE httpErrorMsg(r.status)
    ELSE IF r.text # "" THEN r.text
         ELSE httpErrorMsg(r.status)

\* Faulty variant of catchError: the error is shown, the loading state
\* is not left.
catchError_noRelease(u, message) ==
    showError(u, IF message = "" THEN FallbackMsg ELSE message)

\* The catch block of the submit handler.
catchError(u, message) ==
    setLoading(showError(u, IF message = "" THEN FallbackMsg ELSE message), FALSE)

\* The statements from "Update UI with results" to the end of the try
\* block, for a decoded body data whose tracks is an array.
renderResult(u, data) ==
    LET u1 == [u EXCEPT !.playlistName = JsToString(data.name),
                        !.trackCount = JsToString(data.track_count) \o " tracks"]
    IN  IF \E i \in DOMAIN data.tracks.v : data.tracks.v[i].k # "object"
        THEN catchError(u1, TypeErrorMsg)
        ELSE LET u2 == [u1 EXCEPT !.tracksList = renderTracks(data.tracks.v)]
                 u3 == IF Truthy(data.id) /\ Truthy(data.machine_identifier)
                       THEN [u2 EXCEPT !.plexHref =
                                plexLinkHref(JsToString(data.machine_identifier),
                                             JsToString(data.id))]
                       ELSE u2
                 u4 == setLoading(u3, FALSE)
             IN  [u4 EXCEPT !.resultsHidden = FALSE]

\* Faulty variant of handleResponse: the shape of tracks is not tested, so
\* data.tracks.map throws after the name and the count were written.
handleResponse_noShapeCheck(u, r) ==
    IF ~r.net THEN catchError(u, NetworkErrorMsg)
    ELSE IF ~r.ok THEN catchError(u, nonOkMessage(r))
    ELSE IF r.json.k = "invalid" THEN catchError(u, SyntaxErrorMsg)
    ELSE IF r.json.k # "object" THEN catchError(u, TypeErrorMsg)
    ELSE IF r.json.v.tracks.k # "array"
    THEN catchError([u EXCEPT !.playlistName = JsToString(r.json.v.name),
                              !.trackCount =
                                  JsToString(r.json.v.track_count) \o " tracks"],
                    TypeErrorMsg)
    ELSE renderResult(u, r.json.v)

\* The submit handler from the resumption of its awaits to its end.
handleResponse(u, r) ==
    IF ~r.net THEN catchError(u, NetworkErrorMsg)
    ELSE IF ~r.ok THEN catchError(u, nonOkMessage(r))
    ELSE IF r.json.k = "invalid" THEN catchError(u, SyntaxErrorMsg)
    ELSE IF r.json.k # "object" THEN catchError(u, TypeErrorMsg)
    ELSE IF ~Truthy(r.json.v.tracks) \/ r.json.v.tracks.k # "array"
    THEN catchError(u, ShapeErrorMsg)
    ELSE renderResult(u, r.json.v)

\* Faulty variant of requestBody: the range is that of the default length.
requestBody_defaultLength(prompt) ==
    [ prompt |-> prompt,
      model |-> llmValue,
      min_tracks |-> lengthConfigs["medium"].min,
      max_tracks |-> lengthConfigs["medium"].max ]

\* The body of the request the submit handler builds.
requestBody(prompt) ==
    [ prompt |-> prompt,
      model |-> llmValue,
      min_tracks |-> lengthConfigs[selectedLength].min,
      max_tracks |-> lengthConfigs[selectedLength].max ]

\* Faulty variant of Submit: the request is sent whatever the selected
\* model is.
Submit_noValidation(prompt) ==
    /\ ~ui.submitDisabled
    /\ Len(recPending) < MaxInFlight
    /\ ui' = hideError(setLoading([ui EXCEPT !.released = 0], TRUE))
    /\ recPending' = Append(recPending, requestBody(prompt))
    /\ UNCHANGED << providerVars, statsVars, refreshVars, lengthVars >>

\* Faulty variant of Submit: an error shown earlier is not hidden.
Submit_keepError(prompt) ==
    /\ ~ui.submitDisabled
    /\ Len(recPending) < MaxInFlight
    /\ LET u1 == setLoading([ui EXCEPT !.released = 0], TRUE)
       IN  IF llmValue = ""
           THEN /\ ui' = setLoading(showError(u1, ValidationMsg), FALSE)
                /\ recPending' = recPending
           ELSE /\ ui' = u1
                /\ recPending' = Append(recPending, requestBody(prompt))
    /\ UNCHANGED << providerVars, statsVars, refreshVars, lengthVars >>

\* The submit event of the form: the handler up to its return or its
\* await.  The form's submit button, when disabled, submits nothing.
Submit(prompt) ==
    /\ ~ui.submitDisabled
    /\ Len(recPending) < MaxInFlight
    /\ LET u1 == hideError(setLoading([ui EXCEPT !.released = 0], TRUE))
       IN  IF llmValue = ""
           THEN /\ ui' = setLoading(showError(u1, ValidationMsg), FALSE)
                /\ recPending' = recPending
           ELSE /\ ui' = u1
                /\ recPending' = Append(recPending, requestBody(prompt))
    /\ UNCHANGED << providerVars, statsVars, refreshVars, lengthVars >>

RemoveAt(q, i) == [j \in 1..(Len(q) - 1) |-> IF j < i THEN q[j] ELSE q[j + 1]]

\* The response to (or failure of) the i-th request in flight is handled.
SubmitDone(i, r) ==
    /\ i \in DOMAIN recPending
    /\ recPending' = RemoveAt(recPending, i)
    /\ ui' = handleResponse(ui, r)
    /\ UNCHANGED << providerVars, statsVars, refreshVars, lengthVars >>

(***************************************************************************)
(* The page as loaded.                                                     *)
(***************************************************************************)
\* The elements as the page's markup declares them: nothing shown but the
\* form and the statistics with their skeleton placeholders (UI state Idle).
InitialMarkup ==
    [ submitDisabled |-> FALSE,
      spinnerHidden |-> TRUE,
      btnText |-> "Generate Playlist",
      skeletonHidden |-> TRUE,
      resultsHidden |-> TRUE,
      errorHidden |-> TRUE,
      errorText |-> "",
      playlistName |-> "",
      trackCount |-> "",
      tracksList |-> << >>,
      plexHref |-> "#",
      released |-> 0 ]

\* The state when the DOMContentLoaded callback has run: both startup
\* fetches are in flight and the default length is marked.
Init ==
    /\ providers = << >>
    /\ llmOptions = << >>
    /\ llmSelected = 0
    /\ providersPending = TRUE
    /\ statsPending = TRUE
    /\ libraryStatsHidden = FALSE
    /\ statSkeleton = TRUE
    /\ statArtists = ""
    /\ statAlbums = ""
    /\ statTracks = ""
    /\ refreshDisabled = FALSE
    /\ refreshSpin = FALSE
    /\ refreshPending = 0
    /\ selectedLength = "medium"
    /\ activeButtons = activeAfter("medium")
    /\ ui = InitialMarkup
    /\ recPending = << >>

Next ==
    \/ \E r \in ProviderResponses : FetchProvidersDone(r)
    \/ \E i \in DOMAIN llmOptions : SelectProvider(i)
    \/ \E r \in StatsResponses : FetchLibraryStatsDone(r)
    \/ RefreshClick
    \/ \E r \in RefreshResponses : RefreshLibraryCacheDone(r)
    \/ \E l \in LengthButtons : SetActiveLength(l)
    \/ DismissError
    \/ \E p \in Prompts : Submit(p)
    \/ \E i \in 1..MaxInFlight, r \in RecResponses : SubmitDone(i, r)

Spec == Init /\ [][Next]_vars

\* The remote calls complete: every call in flight is eventually answered
\* or fails, and its handler resumes.
FairSpec ==
    /\ Spec
    /\ WF_vars(\E r \in ProviderResponses : FetchProvidersDone(r))
    /\ WF_vars(\E r \in StatsResponses : FetchLibraryStatsDone(r))
    /\ WF_vars(\E r \in RefreshResponses : RefreshLibraryCacheDone(r))
    /\ WF_vars(\E i \in 1..MaxInFlight, r \in RecResponses : SubmitDone(i, r))

(***************************************************************************)
(* The surfaces of the page.                                               *)
(***************************************************************************)
loadingVisible == ~ui.skeletonHidden
resultsVisible == ~ui.resultsHidden
errorVisible == ~ui.errorHidden

\* The step handles the response to a /recommendations request.
responseHandled == Len(recPending') < Len(recPending)

\* The step handles the response to a /refresh request.
refreshHandled == refreshPending' < refreshPending

\* The provider catalog load has completed with an empty list or failed.
catalogEmptyOrErrored ==
    /\ ~providersPending
    /\ llmOptions \in { << NoProvidersOption >>, << ErrorProvidersOption >> }

(***************************************************************************)
(* C1: a submission made while the provider catalog is empty or errored    *)
(* issues no /recommendations request and ends with the error banner shown *)
(* with the validation message and the loading state left.                 *)
(***************************************************************************)
C1_NoProviderNoRequest ==
    [][ \A p \in Prompts :
          (catalogEmptyOrErrored /\ Submit(p)) =>
              /\ recPending' = recPending
              /\ ~ui'.errorHidden
              /\ ui'.errorText = ValidationMsg
              /\ ui'.skeletonHidden
              /\ ui'.spinnerHidden
              /\ ~ui'.submitDisabled ]_vars

\* The validation error is shown for an errored catalog, nothing in flight.
C1_Witness ==
    /\ ~providersPending
    /\ llmOptions = << ErrorProvidersOption >>
    /\ errorVisible
    /\ ui.errorText = ValidationMsg
    /\ ui.released = 1
    /\ recPending = << >>

(***************************************************************************)
(* C2: every submission leaves the loading state exactly once, at its end, *)
(* whatever its outcome: the step that ends it (the validation failure or  *)
(* the handling of the response) makes exactly one setLoading(false) call, *)
(* none is made while its request is in flight, no state without a request *)
(* in flight has the loading state set, and, the remote call completing,   *)
(* a page that is loading eventually is not, with the submit button usable.*)
(***************************************************************************)
\* The step ends a submission: a submit event that sends no request, or
\* the handling of a response.
submissionEnds ==
    \/ recPending' = recPending /\ \E p \in Prompts : Submit(p)
    \/ responseHandled

C2_LoadingReleasedOnce ==
    /\ [][ submissionEnds =>
              /\ ui'.released = 1
              /\ ui'.skeletonHidden
              /\ ui'.spinnerHidden
              /\ ~ui'.submitDisabled ]_vars
    /\ [](recPending # << >> => ui.released = 0 /\ loadingVisible)
    /\ [](recPending = << >> => ~loadingVisible /\ ~ui.submitDisabled)
    /\ (loadingVisible ~> (~loadingVisible /\ ~ui.submitDisabled))

\* A request has failed at the network and the loading state was left once.
C2_Witness ==
    /\ ui.released = 1
    /\ ui.errorText = NetworkErrorMsg
    /\ errorVisible
    /\ ~loadingVisible
    /\ ~ui.submitDisabled

(***************************************************************************)
(* C3: between event handlers at most one of the loading indicator, the    *)
(* results panel and the error banner is visible.                          *)
(***************************************************************************)
C3_SurfacesExclusive ==
    /\ ~(loadingVisible /\ resultsVisible)
    /\ ~(loadingVisible /\ errorVisible)
    /\ ~(resultsVisible /\ errorVisible)

\* Results are shown after an earlier submission ended in an error.
C3_Witness ==
    /\ resultsVisible
    /\ ui.errorText = ShapeErrorMsg
    /\ ~errorVisible
    /\ ~loadingVisible

(***************************************************************************)
(* C4: for a non-success response the error banner is shown with the       *)
(* body's detail when the response declares JSON and the detail is not     *)
(* empty, with the raw body text when it does not declare JSON and the     *)
(* text is not empty, and otherwise with the generic message carrying the  *)
(* status code.                                                            *)
(***************************************************************************)
claimedErrorMessage(r) ==
    IF /\ declaresJson(r.contentType)
       /\ r.json.k = "object"
       /\ Truthy(r.json.v.detail)
    THEN r.json.v.detail.v
    ELSE IF ~declaresJson(r.contentType) /\ r.text # ""
    THEN r.text
    ELSE httpErrorMsg(r.status)

C4_NonSuccessMessage ==
    [][ responseHandled => \A i \in DOMAIN recPending, r \in RecResponses :
          (r.net /\ ~r.ok /\ SubmitDone(i, r)) =>
              /\ ~ui'.errorHidden
              /\ ui'.errorText = claimedErrorMessage(r)
              /\ ui'.skeletonHidden
              /\ ui'.resultsHidden ]_vars

(***************************************************************************)
(* C5: a success response whose body has tracks absent or not an array     *)
(* ends with the error banner shown with the shape-error message, the      *)
(* results panel hidden and the playlist name, the track-count label, the  *)
(* track list and the deep link as they were.                              *)
(***************************************************************************)
illShapedTracks(r) ==
    /\ r.net
    /\ r.ok
    /\ r.json.k = "object"
    /\ r.json.v.tracks.k # "array"

C5_ShapeError ==
    [][ responseHandled => \A i \in DOMAIN recPending, r \in RecResponses :
          (illShapedTracks(r) /\ SubmitDone(i, r)) =>
              /\ ~ui'.errorHidden
              /\ ui'.errorText = ShapeErrorMsg
              /\ ui'.resultsHidden
              /\ ui'.skeletonHidden
              /\ ui'.playlistName = ui.playlistName
              /\ ui'.trackCount = ui.trackCount
              /\ ui'.tracksList = ui.tracksList
              /\ ui'.plexHref = ui.plexHref ]_vars

\* The shape error is shown while the fields still hold an earlier result
\* (the ill-shaped bodies are named otherwise).
C5_Witness ==
    /\ errorVisible
    /\ ui.errorText = ShapeErrorMsg
    /\ ~resultsVisible
    /\ ui.playlistName = "Mix"
    /\ Len(ui.tracksList) = MaxTracks

(***************************************************************************)
(* C6: when a well-formed result is rendered, the deep link is the         *)
(* template filled with that result's machine_identifier and id when both  *)
(* are present, and is no deep link (the href of the page as loaded) when  *)
(* either is absent.                                                       *)
(***************************************************************************)
wellFormed(r) ==
    /\ r.net
    /\ r.ok
    /\ r.json.k = "object"
    /\ r.json.v.tracks.k = "array"
    /\ \A j \in DOMAIN r.json.v.tracks.v : r.json.v.tracks.v[j].k = "object"

C6_LinkOfLatestResult ==
    [][ responseHandled => \A i \in DOMAIN recPending, r \in RecResponses :
          (wellFormed(r) /\ SubmitDone(i, r)) =>
              /\ ~ui'.resultsHidden
              /\ ui'.playlistName = r.json.v.name.v
              /\ ui'.plexHref =
                    IF Truthy(r.json.v.id) /\ Truthy(r.json.v.machine_identifier)
                    THEN plexLinkHref(r.json.v.machine_identifier.v, r.json.v.id.v)
                    ELSE InitialMarkup.plexHref ]_vars

(***************************************************************************)
(* C7: every refresh, whatever the /refresh call comes back with, ends     *)
(* with the refresh button enabled and the icon not spinning, and, the     *)
(* remote call completing, a disabled refresh button eventually is enabled *)
(* with the icon not spinning.                                             *)
(***************************************************************************)
C7_RefreshCleanup ==
    /\ [][ refreshHandled => \A r \in RefreshResponses :
              RefreshLibraryCacheDone(r) =>
                  (~refreshDisabled' /\ ~refreshSpin') ]_vars
    /\ (refreshDisabled ~> (~refreshDisabled /\ ~refreshSpin))

\* A refresh whose payload lacked a count (so that it failed after writing
\* the artists) has ended, with the button enabled and the icon still.
C7_Witness ==
    /\ refreshPending = 0
    /\ statArtists = "13"
    /\ statAlbums # "35"
    /\ ~refreshDisabled
    /\ ~refreshSpin

(***************************************************************************)
(* C8: when a refresh fails, the three statistics fields all show one      *)
(* unavailable marker: none is empty and none shows a count.               *)
(***************************************************************************)
refreshFailed(r) ==
    ~( /\ r.net
       /\ r.ok
       /\ r.json.k = "object"
       /\ r.json.v.stats.k = "object"
       /\ \A f \in {"artists", "albums", "tracks"} :
             r.json.v.stats.v[f].k = "number" )

\* The texts that show a count.
countTexts ==
    { toLocaleString(s[f].v) :
        f \in {"artists", "albums", "tracks"},
        s \in { x \in LoadStats \cup RefreshStats :
                  \A g \in {"artists", "albums", "tracks"} : x[g].k = "number" } }

C8_FailedRefreshUnavailable ==
    [][ refreshHandled => \A r \in RefreshResponses :
          (refreshFailed(r) /\ RefreshLibraryCacheDone(r)) =>
              /\ statArtists' \notin countTexts \cup {""}
              /\ statAlbums' = statArtists'
              /\ statTracks' = statArtists' ]_vars

(***************************************************************************)
(* C9: at the end of every refresh the three statistics fields are either  *)
(* all taken from the payload of that refresh or all as they were.         *)
(***************************************************************************)
C9_RefreshAllOrNothing ==
    [][ refreshHandled => \A r \in RefreshResponses :
          RefreshLibraryCacheDone(r) =>
              \/ UNCHANGED << statArtists, statAlbums, statTracks >>
              \/ /\ ~refreshFailed(r)
                 /\ statArtists' = toLocaleString(r.json.v.stats.v.artists.v)
                 /\ statAlbums' = toLocaleString(r.json.v.stats.v.albums.v)
                 /\ statTracks' = toLocaleString(r.json.v.stats.v.tracks.v) ]_vars

(***************************************************************************)
(* C10: at most one /refresh call is in flight, and the refresh button is  *)
(* disabled exactly while one is.                                          *)
(***************************************************************************)
C10_OneRefreshInFlight ==
    /\ refreshPending <= 1
    /\ refreshDisabled <=> (refreshPending = 1)
    /\ refreshSpin <=> (refreshPending = 1)

\* A second refresh is in flight after a first one has completed.
C10_Witness ==
    /\ refreshPending = 1
    /\ refreshDisabled
    /\ statTracks = "2,345"

(***************************************************************************)
(* C11: the click on the refresh button empties every statistics field,    *)
(* marks it as loading and disables the button before the /refresh call is *)
(* issued, so that while a refresh is in flight no field shows a count.    *)
(***************************************************************************)
C11_RefreshPendingVisual ==
    /\ [][ RefreshClick =>
              /\ refreshDisabled'
              /\ statSkeleton'
              /\ statArtists' = ""
              /\ statAlbums' = ""
              /\ statTracks' = "" ]_vars
    /\ [](refreshPending > 0 =>
              /\ statArtists \notin countTexts
              /\ statAlbums \notin countTexts
              /\ statTracks \notin countTexts)

(***************************************************************************)
(* C12: when the startup load of the statistics fails (network failure,    *)
(* non-success status, a body that cannot be decoded or that lacks a       *)
(* count), the statistics surface is hidden at the end of the load.        *)
(***************************************************************************)
statsFailed(r) ==
    ~( /\ r.net
       /\ r.ok
       /\ r.json.k = "object"
       /\ \A f \in {"artists", "albums", "tracks"} : r.json.v[f].k = "number" )

C12_FailedLoadHidesStats ==
    [][ \A r \in StatsResponses :
          (statsFailed(r) /\ FetchLibraryStatsDone(r)) =>
              libraryStatsHidden' ]_vars

\* The load has ended on a body lacking the albums count: the artists were
\* written, and the surface is hidden.
C12_Witness ==
    /\ ~statsPending
    /\ libraryStatsHidden
    /\ statArtists = "12"
    /\ statAlbums = ""

(***************************************************************************)
(* C13: every validation, transport, decoding or shape error on an         *)
(* endpoint other than the startup load of the statistics ends with the    *)
(* error banner shown with a message: a submission without a provider, a   *)
(* failed /recommendations call, a failed refresh and a failed load of the *)
(* provider catalog.                                                       *)
(***************************************************************************)
providersFailed(r) == ~(r.net /\ r.ok /\ r.json.k = "array")

C13_ErrorsSurface ==
    [][ /\ \A p \in Prompts :
              (llmValue = "" /\ Submit(p)) =>
                  (~ui'.errorHidden /\ ui'.errorText # "")
        /\ responseHandled => \A i \in DOMAIN recPending, r \in RecResponses :
              (~wellFormed(r) /\ SubmitDone(i, r)) =>
                  (~ui'.errorHidden /\ ui'.errorText # "")
        /\ refreshHandled => \A r \in RefreshResponses :
              (refreshFailed(r) /\ RefreshLibraryCacheDone(r)) =>
                  (~ui'.errorHidden /\ ui'.errorText # "")
        /\ \A r \in ProviderResponses :
              (providersFailed(r) /\ FetchProvidersDone(r)) =>
                  (~ui'.errorHidden /\ ui'.errorText # "") ]_vars

(***************************************************************************)
(* C14: the load of the provider catalog ends in exactly one of three      *)
(* states: populated (the options are the providers of a non-empty list    *)
(* and the selected value is the model of its first element), empty (the   *)
(* one option reads "No providers configured" and no model is selected) or *)
(* errored (the one option reads "Error loading providers" and no model is *)
(* selected); and once the load has completed, the dropdown holds either   *)
(* enabled provider options with one of their models selected, or one of   *)
(* the two messages, never both messages.                                  *)
(***************************************************************************)
catalogPopulated ==
    /\ providers # << >>
    /\ llmOptions = [i \in 1..Len(providers) |-> ProviderOption(providers[i])]
    /\ \A i \in DOMAIN llmOptions : ~llmOptions[i].disabled
    /\ llmValue \in { providers[i].model : i \in DOMAIN providers }

catalogEmpty ==
    /\ llmOptions = << NoProvidersOption >>
    /\ llmOptions[1].text = "No providers configured"
    /\ llmValue = ""

catalogErrored ==
    /\ llmOptions = << ErrorProvidersOption >>
    /\ llmOptions[1].text = "Error loading providers"
    /\ llmValue = ""

C14_CatalogStates ==
    /\ [][ \A r \in ProviderResponses : FetchProvidersDone(r) =>
              IF providersFailed(r)
              THEN catalogErrored' /\ ~catalogEmpty' /\ ~catalogPopulated'
              ELSE IF r.json.v = << >>
              THEN catalogEmpty' /\ ~catalogErrored' /\ ~catalogPopulated'
              ELSE /\ catalogPopulated' /\ ~catalogEmpty' /\ ~catalogErrored'
                   /\ providers' = r.json.v
                   /\ llmValue' = r.json.v[1].model ]_vars
    /\ [](~providersPending =>
              \/ catalogPopulated /\ ~catalogEmpty /\ ~catalogErrored
              \/ catalogEmpty /\ ~catalogErrored /\ ~catalogPopulated
              \/ catalogErrored /\ ~catalogEmpty /\ ~catalogPopulated)

\* The catalog was loaded with no provider configured.
C14_Witness ==
    /\ ~providersPending
    /\ catalogEmpty
    /\ providers = << >>

(***************************************************************************)
(* C15: exactly one length button is marked active, the one selected last  *)
(* (medium before any selection); the request a submission sends carries   *)
(* the documented pair of the length active at the submission (short       *)
(* 20-40, medium 50-70, long 100-140); and selecting a length changes no   *)
(* request in flight.                                                      *)
(***************************************************************************)
documentedRange(length) ==
    CASE length = "short" -> << 20, 40 >>
      [] length = "medium" -> << 50, 70 >>
      [] length = "long" -> << 100, 140 >>

C15_LengthChoice ==
    /\ selectedLength = "medium"
    /\ [](activeButtons = { selectedLength } /\ Cardinality(activeButtons) = 1)
    /\ [][ \A l \in LengthButtons : SetActiveLength(l) =>
              /\ selectedLength' = l
              /\ recPending' = recPending ]_vars
    /\ [][ \A p \in Prompts : (Submit(p) /\ recPending' # recPending) =>
              /\ Len(recPending') = Len(recPending) + 1
              /\ << recPending'[Len(recPending')].min_tracks,
                    recPending'[Len(recPending')].max_tracks >>
                     = documentedRange(selectedLength) ]_vars

\* A request sent with the long range is in flight while short is active.
C15_Witness ==
    /\ Len(recPending) = 1
    /\ recPending[1].min_tracks = 100
    /\ recPending[1].max_tracks = 140
    /\ selectedLength = "short"
    /\ activeButtons = {"short"}

(***************************************************************************)
(* C16: every /recommendations request in flight carries the model of a    *)
(* provider of the loaded list, never an empty model, and a submission     *)
(* made before the load of the catalog has completed sends no request.     *)
(***************************************************************************)
C16_ModelInCatalog ==
    /\ [](\A i \in DOMAIN recPending :
              /\ recPending[i].model # ""
              /\ recPending[i].model \in
                    { providers[j].model : j \in DOMAIN providers })
    /\ [][ \A p \in Prompts : (providersPending /\ Submit(p)) =>
              /\ recPending' = recPending
              /\ ui'.errorText = ValidationMsg ]_vars

\* A request carrying the second provider's model is in flight.
C16_Witness ==
    /\ Len(recPending) = 1
    /\ recPending[1].model = Provider(2).model
    /\ llmSelected = 2

(***************************************************************************)
(* The abstract state of the visible surface.                              *)
(***************************************************************************)
uiState ==
    CASE loadingVisible /\ ~resultsVisible /\ ~errorVisible -> "Loading"
      [] ~loadingVisible /\ resultsVisible /\ ~errorVisible -> "Results"
      [] ~loadingVisible /\ ~resultsVisible /\ errorVisible -> "ErrorShown"
      [] ~loadingVisible /\ ~resultsVisible /\ ~errorVisible -> "Idle"
      [] OTHER -> "None"

\* The step is one of the transitions of the four-state machine, taken on
\* the event the machine names for it.
listedTransition ==
    \/ /\ uiState \in {"Idle", "ErrorShown", "Results"}
       /\ uiState' = "Loading"
       /\ \E p \in Prompts : Submit(p)
    \/ /\ uiState = "Loading"
       /\ uiState' = "Results"
       /\ \E i \in DOMAIN recPending, r \in RecResponses :
             wellFormed(r) /\ SubmitDone(i, r)
    \/ /\ uiState = "Loading"
       /\ uiState' = "ErrorShown"
       /\ \E i \in DOMAIN recPending, r \in RecResponses :
             ~wellFormed(r) /\ SubmitDone(i, r)
    \/ /\ uiState = "ErrorShown"
       /\ uiState' = "Idle"
       /\ DismissError

\* A submission without a selected provider shows the validation error in
\* the step of the submit event itself.
validationTransition ==
    /\ uiState = "Idle"
    /\ uiState' = "ErrorShown"
    /\ llmValue = ""
    /\ ui'.errorText = ValidationMsg
    /\ \E p \in Prompts : Submit(p)

(***************************************************************************)
(* C17 as stated: the visible surface starts in Idle and every step either *)
(* is one of the listed transitions (submit from Idle, ErrorShown or       *)
(* Results to Loading; Loading to Results on success; Loading to           *)
(* ErrorShown on failure; ErrorShown to Idle on dismiss) or leaves the     *)
(* abstract state unchanged.                                               *)
(***************************************************************************)
C17_FourStateMachine ==
    /\ uiState = "Idle"
    /\ [][ uiState' = uiState \/ listedTransition ]_vars

(***************************************************************************)
(* C17 as amended: the visible surface starts in Idle and every step       *)
(* either is one of the listed transitions, or is a submission without a   *)
(* selected provider, which goes from Idle to ErrorShown in one step, or   *)
(* leaves the abstract state unchanged.                                    *)
(***************************************************************************)
C17_FourStateMachineAmended ==
    /\ uiState = "Idle"
    /\ [][ uiState' = uiState \/ listedTransition \/ validationTransition ]_vars

\* The validation error is shown for a submission made before the load of
\* the catalog has completed.
C17_Witness ==
    /\ providersPending
    /\ uiState = "ErrorShown"
    /\ ui.errorText = ValidationMsg
    /\ ui.released = 1

(***************************************************************************)
(* C18: the click on the dismiss button changes nothing but the visibility *)
(* of the error banner: the message, the playlist name, the track-count    *)
(* label, the track list, the deep link, the results panel, the loading    *)
(* indicator, the submit button, the active length, the provider selection *)
(* and the statistics are as before, in whatever state it occurs.          *)
(***************************************************************************)
C18_DismissFrame ==
    [][ DismissError =>
          /\ ui'.errorHidden
          /\ ui'.errorText = ui.errorText
          /\ ui'.playlistName = ui.playlistName
          /\ ui'.trackCount = ui.trackCount
          /\ ui'.tracksList = ui.tracksList
          /\ ui'.plexHref = ui.plexHref
          /\ ui'.resultsHidden = ui.resultsHidden
          /\ ui'.skeletonHidden = ui.skeletonHidden
          /\ ui'.spinnerHidden = ui.spinnerHidden
          /\ ui'.btnText = ui.btnText
          /\ ui'.submitDisabled = ui.submitDisabled
          /\ UNCHANGED << recPending, selectedLength, activeButtons,
                          providers, llmOptions, llmSelected, providersPending,
                          statsVars, refreshVars >> ]_vars

\* The error of a failed request was dismissed: the surface is idle, the
\* message and the data of the earlier result are still in the page.
C18_Witness ==
    /\ uiState = "Idle"
    /\ ui.errorText = NetworkErrorMsg
    /\ ui.playlistName = "Mix"
    /\ Len(ui.tracksList) = MaxTracks
    /\ recPending = << >>

(***************************************************************************)
(* C19: no step of the statistics load or of a refresh (the click and the  *)
(* handling of the response, on success or on failure, whatever request of *)
(* a submission is in flight) changes the loading indicator, the results   *)
(* panel and its data, the error banner and its message, the submit        *)
(* button, the requests in flight, the provider selection or the length.   *)
(***************************************************************************)
statisticsStep ==
    \/ \E r \in StatsResponses : FetchLibraryStatsDone(r)
    \/ RefreshClick
    \/ \E r \in RefreshResponses : RefreshLibraryCacheDone(r)

C19_StatisticsFrame ==
    [][ statisticsStep =>
          UNCHANGED << ui, recPending, providers, llmOptions, llmSelected,
                       providersPending, selectedLength, activeButtons >> ]_vars

\* The statistics load has failed and a refresh is in flight while a
\* submission is loading.
C19_Witness ==
    /\ uiState = "Loading"
    /\ Len(recPending) = 1
    /\ refreshPending = 1
    /\ ~statsPending
    /\ libraryStatsHidden

(***************************************************************************)
(* C20: when a well-formed success body is rendered, the list has one      *)
(* entry per element of tracks, in the order of the body, the entry at     *)
(* position i being numbered i and showing the title and the artist of the *)
(* i-th track, and the track-count label reads the body's track_count      *)
(* followed by " tracks".                                                  *)
(***************************************************************************)
C20_RenderedTracks ==
    [][ responseHandled => \A i \in DOMAIN recPending, r \in RecResponses :
          (wellFormed(r) /\ SubmitDone(i, r)) =>
              /\ ~ui'.resultsHidden
              /\ Len(ui'.tracksList) = Len(r.json.v.tracks.v)
              /\ \A j \in DOMAIN r.json.v.tracks.v :
                    /\ ui'.tracksList[j].position = ToString(j)
                    /\ ui'.tracksList[j].title = r.json.v.tracks.v[j].v.title.v
                    /\ ui'.tracksList[j].artist = r.json.v.tracks.v[j].v.artist.v
              /\ ui'.trackCount = ToString(r.json.v.track_count.v) \o " tracks" ]_vars

(***************************************************************************)
(* C22: between event handlers the submit button is disabled exactly when  *)
(* the loading indicator is visible, exactly when a /recommendations       *)
(* request is in flight; at most one such request is in flight; and in     *)
(* every state without a request in flight (Idle, Results or ErrorShown) a *)
(* submission is accepted.                                                 *)
(***************************************************************************)
C22_SubmitGuard ==
    /\ ui.submitDisabled <=> loadingVisible
    /\ loadingVisible <=> (recPending # << >>)
    /\ Len(recPending) <= 1
    /\ (recPending = << >>) =>
          /\ uiState \in {"Idle", "Results", "ErrorShown"}
          /\ ENABLED (\E p \in Prompts : Submit(p))

\* A submission made from the Results state is loading: the button is
\* disabled and its request is the only one in flight.
C22_Witness ==
    /\ Len(recPending) = 1
    /\ ui.submitDisabled
    /\ uiState = "Loading"
    /\ ui.playlistName = "Mix"
    /\ ui.errorHidden

(***************************************************************************)
(* C23: under every interleaving of the startup load of the statistics     *)
(* with a refresh, once both have completed and the refresh succeeded the  *)
(* statistics are visible and show the counts of the refresh payload: a    *)
(* refresh that succeeds after the load has ended leaves them so, and a    *)
(* load that ends after a successful refresh neither overwrites the counts *)
(* nor hides the statistics.                                               *)
(***************************************************************************)
\* The fields show the counts of a complete refresh payload.
refreshShown ==
    \E s \in RefreshStats :
        /\ \A f \in {"artists", "albums", "tracks"} : s[f].k = "number"
        /\ statArtists = toLocaleString(s.artists.v)
        /\ statAlbums = toLocaleString(s.albums.v)
        /\ statTracks = toLocaleString(s.tracks.v)

C23_RefreshOutlivesLoad ==
    [][ /\ refreshHandled => \A r \in RefreshResponses :
              (~statsPending /\ ~refreshFailed(r) /\ RefreshLibraryCacheDone(r)) =>
                  (~libraryStatsHidden' /\ refreshShown')
        /\ \A r \in StatsResponses :
              (refreshPending = 0 /\ refreshShown /\ FetchLibraryStatsDone(r)) =>
                  (~libraryStatsHidden' /\ refreshShown') ]_vars

(***************************************************************************)
(* The revision without a submit guard (src/unnamed/part_000).  It has no  *)
(* statistics, no refresh and no submit button state: the page shows the   *)
(* loading state, the results panel and the error banner.  Its provider    *)
(* catalog, length selector, showError and hideError read as in app.js.    *)
(* In this revision ui holds the fields below; ui.issued (the number of    *)
(* requests sent) and ui.shown (the number of the request whose response   *)
(* was handled last) are history fields that no handler reads, and each    *)
(* request in flight carries its number as seq.                            *)
(***************************************************************************)
MaxSubmissions == 2     \* cap on the requests sent in one behaviour

\* The elements as the page's markup declares them.
OldInitialMarkup ==
    [ loadingHidden |-> TRUE,
      resultsHidden |-> TRUE,
      errorHidden |-> TRUE,
      errorText |-> "",
      playlistName |-> "",
      trackCount |-> "",
      tracksList |-> << >>,
      plexHref |-> "#",
      issued |-> 0,
      shown |-> 0 ]

\* The finally block of the submit handler.
oldFinally(u) == [u EXCEPT !.loadingHidden = TRUE]

\* The catch block of the submit handler, followed by the finally block.
oldCatch(u, message) ==
    oldFinally(showError(u, IF message = "" THEN FallbackMsg ELSE message))

\* The statements from "Update UI with results" to the end of the handler,
\* for a decoded body data whose tracks is an array.
oldRenderResult(u, data) ==
    LET u1 == [u EXCEPT !.playlistName = JsToString(data.name),
                        !.trackCount = JsToString(data.track_count) \o " tracks"]
    IN  IF \E i \in DOMAIN data.tracks.v : data.tracks.v[i].k # "object"
        THEN oldCatch(u1, TypeErrorMsg)
        ELSE LET u2 == [u1 EXCEPT !.tracksList = renderTracks(data.tracks.v)]
                 u3 == IF Truthy(data.id) /\ Truthy(data.machine_identifier)
                       THEN [u2 EXCEPT !.plexHref =
                                plexLinkHref(JsToString(data.machine_identifier),
                                             JsToString(data.id))]
                       ELSE u2
             IN  oldFinally([u3 EXCEPT !.resultsHidden = FALSE])

\* The submit handler from the resumption of its awaits to its end.
oldHandleResponse(u, r) ==
    IF ~r.net THEN oldCatch(u, NetworkErrorMsg)
    ELSE IF ~r.ok THEN oldCatch(u, nonOkMessage(r))
    ELSE IF r.json.k = "invalid" THEN oldCatch(u, SyntaxErrorMsg)
    ELSE IF r.json.k # "object" THEN oldCatch(u, TypeErrorMsg)
    ELSE IF ~Truthy(r.json.v.tracks) \/ r.json.v.tracks.k # "array"
    THEN oldCatch(u, ShapeErrorMsg)
    ELSE oldRenderResult(u, r.json.v)

\* The body of the request the submit handler builds, with its number.
oldRequest(prompt, n) ==
    [ prompt |-> prompt,
      model |-> llmValue,
      min_tracks |-> lengthConfigs[selectedLength].min,
      max_tracks |-> lengthConfigs[selectedLength].max,
      seq |-> n ]

\* The submit event of the form: the handler up to its return or its
\* await.  Nothing in this revision keeps the form from being submitted
\* while a request is in flight.
OldSubmit(prompt) ==
    /\ ui.issued < MaxSubmissions
    /\ Len(recPending) < MaxInFlight
    /\ LET u1 == hideError([ui EXCEPT !.loadingHidden = FALSE,
                                      !.resultsHidden = TRUE])
       IN  IF llmValue = ""
           THEN /\ ui' = [showError(u1, ValidationMsg) EXCEPT !.loadingHidden = TRUE]
                /\ recPending' = recPending
           ELSE /\ ui' = [u1 EXCEPT !.issued = @ + 1]
                /\ recPending' = Append(recPending, oldRequest(prompt, ui.issued + 1))
    /\ UNCHANGED << providerVars, statsVars, refreshVars, lengthVars >>

\* Faulty variant of OldSubmitDone: the response to a request that is not
\* the latest sent is dropped.
OldSubmitDone_latestOnly(i, r) ==
    /\ i \in DOMAIN recPending
    /\ recPending' = RemoveAt(recPending, i)
    /\ ui' = IF recPending[i].seq = ui.issued
             THEN [oldHandleResponse(ui, r) EXCEPT !.shown = recPending[i].seq]
             ELSE ui
    /\ UNCHANGED << providerVars, statsVars, refreshVars, lengthVars >>

\* The response to (or failure of) the i-th request in flight is handled:
\* the responses come back in any order.
OldSubmitDone(i, r) ==
    /\ i \in DOMAIN recPending
    /\ recPending' = RemoveAt(recPending, i)
    /\ ui' = [oldHandleResponse(ui, r) EXCEPT !.shown = recPending[i].seq]
    /\ UNCHANGED << providerVars, statsVars, refreshVars, lengthVars >>

\* The state when the DOMContentLoaded callback has run: the load of the
\* catalog is in flight and the default length is marked.  The variables
\* of the statistics and of the refresh stand for nothing in this revision.
OldInit ==
    /\ providers = << >>
    /\ llmOptions = << >>
    /\ llmSelected = 0
    /\ providersPending = TRUE
    /\ statsPending = FALSE
    /\ libraryStatsHidden = TRUE
    /\ statSkeleton = FALSE
    /\ statArtists = ""
    /\ statAlbums = ""
    /\ statTracks = ""
    /\ refreshDisabled = FALSE
    /\ refreshSpin = FALSE
    /\ refreshPending = 0
    /\ selectedLength = "medium"
    /\ activeButtons = activeAfter("medium")
    /\ ui = OldInitialMarkup
    /\ recPending = << >>

OldNext ==
    \/ \E r \in ProviderResponses : FetchProvidersDone(r)
    \/ \E i \in DOMAIN llmOptions : SelectProvider(i)
    \/ \E l \in LengthButtons : SetActiveLength(l)
    \/ DismissError
    \/ \E p \in Prompts : OldSubmit(p)
    \/ \E i \in 1..MaxInFlight, r \in RecResponses : OldSubmitDone(i, r)

OldSpec == OldInit /\ [][OldNext]_vars

(***************************************************************************)
(* C21: in the revision without a submit guard a submission is accepted    *)
(* while a request is in flight, and the response to any request in        *)
(* flight, the latest sent or not, is applied when it arrives: it hides    *)
(* the loading state even with another request in flight, a well-formed    *)
(* body replaces the name shown and shows the results, a failure shows the *)
(* error banner with its message; so the page can end up showing the       *)
(* outcome of a request that is not the latest sent.                       *)
(***************************************************************************)
C21_StaleResponseApplied ==
    /\ []((recPending # << >> /\ Len(recPending) < MaxInFlight
              /\ ui.issued < MaxSubmissions) =>
            ENABLED (\E p \in Prompts : OldSubmit(p)))
    /\ [][ responseHandled =>
              /\ ui'.loadingHidden
              /\ ~ui'.resultsHidden \/ ~ui'.errorHidden
              /\ \A i \in DOMAIN recPending :
                    recPending' = RemoveAt(recPending, i) =>
                        ui'.shown = recPending[i].seq
              /\ \A i \in DOMAIN recPending, r \in RecResponses :
                    (wellFormed(r) /\ OldSubmitDone(i, r)) =>
                        /\ ~ui'.resultsHidden
                        /\ ui'.playlistName = r.json.v.name.v
              /\ \A i \in DOMAIN recPending, r \in RecResponses :
                    (~r.net /\ OldSubmitDone(i, r)) =>
                        /\ ~ui'.errorHidden
                        /\ ui'.errorText = NetworkErrorMsg ]_vars

\* Two requests were sent, the second while the first was in flight; the
\* second failed at the network, then the first was answered: with nothing
\* in flight the page shows the results of the first, not the latest sent.
C21_Witness ==
    /\ recPending = << >>
    /\ ui.issued = 2
    /\ ui.shown = 1
    /\ ui.loadingHidden
    /\ ~ui.resultsHidden
    /\ ui.playlistName = "Mix"
    /\ ~ui.errorHidden
    /\ ui.errorText = NetworkErrorMsg

====
